---- MODULE Spec2Model ----
(***************************************************************************)
(* FilMarket contract (contract/src/lib.rs): a NEAR contract holding a     *)
(* registry of storage providers, a time-indexed store of price snapshots  *)
(* with a "latest" pointer, a four-field aggregate of active providers per *)
(* region and the owner that gates every mutation.                         *)
(*                                                                         *)
(* Every contract method runs to completion, so each is one action.  The   *)
(* f64 and integer fields are only ever copied by the contract, never      *)
(* computed with, so they are modelled by small naturals.                  *)
(***************************************************************************)
EXTENDS Naturals, Sequences, FiniteSets

VARIABLES
    state_exists,       \* env::state_exists(): the contract state was written by new()
    storage_providers,  \* UnorderedMap<String, StorageProvider>
    price_per_region,   \* UnorderedMap<u64, PricePerRegion>
    active_per_region,  \* ActivePerRegion
    latest_timestamp,   \* u64
    owner,              \* String
    op,                 \* the method of the last call
    account_id,         \* env::predecessor_account_id() of the last call
    ret,                \* how the last call ended: "ok" or "panic"
    logs,               \* the env::log_str lines of the last call
    result              \* the value the last call returned

contract == <<state_exists, storage_providers, price_per_region,
              active_per_region, latest_timestamp, owner>>
call == <<op, account_id, ret, logs, result>>
vars == <<state_exists, storage_providers, price_per_region, active_per_region,
          latest_timestamp, owner, op, account_id, ret, logs, result>>

----------------------------------------------------------------------------
(* Bounds of the model.                                                    *)

\* longest Vec argument of a call
MaxBatch == 2
\* timestamps are 0 .. MaxTimestamp
MaxTimestamp == 2
\* number of distinct non-zero ActivePerRegion arguments
MaxActive == 2

Accounts == {"carol_near", "bob_near"}
Ids == {"", "id1", "id2"}
Regions == {1, 2}
\* the PricePerRegion arguments differ in every field
PriceLevels == {10, 20}
Timestamps == 0 .. MaxTimestamp

\* all sequences over S of length at most n
RECURSIVE SeqsUpTo(_, _)
SeqsUpTo(S, n) ==
    IF n = 0 THEN {<<>>}
    ELSE LET shorter == SeqsUpTo(S, n - 1)
         IN  shorter \cup {Append(s, x) : s \in {t \in shorter : Len(t) = n - 1}, x \in S}

----------------------------------------------------------------------------
(* The records of the contract.                                            *)

StorageProvider(id, region, power, price) ==
    [id |-> id, region |-> region, power |-> power, price |-> price]

PricePerRegion(europe, asia, north_america, other, global, fil_price, power, timestamp) ==
    [europe |-> europe, asia |-> asia, north_america |-> north_america,
     other |-> other, global |-> global, fil_price |-> fil_price,
     power |-> power, timestamp |-> timestamp]

ActivePerRegion(europe, asia, north_america, other) ==
    [europe |-> europe, asia |-> asia, north_america |-> north_america, other |-> other]

empty_sp == StorageProvider("", 0, 0, 0)
empty_ppr == PricePerRegion(0, 0, 0, 0, 0, 0, 0, 0)

----------------------------------------------------------------------------
(* near_sdk::collections::UnorderedMap: a vector of keys and a vector of   *)
(* values, index i of one belonging to index i of the other.  insert       *)
(* replaces the value of a known key in place and pushes an unknown key;   *)
(* remove is a swap_remove: the last entry takes the removed entry's index.*)

UnorderedMapNew == [keys |-> <<>>, values |-> <<>>]

UMIndex(m, k) ==
    IF \E i \in 1 .. Len(m.keys) : m.keys[i] = k
    THEN CHOOSE i \in 1 .. Len(m.keys) : m.keys[i] = k
    ELSE 0

UMContains(m, k) == UMIndex(m, k) # 0

\* m.get(&k).unwrap_or(default)
UMGetOr(m, k, default) ==
    IF UMContains(m, k) THEN m.values[UMIndex(m, k)] ELSE default

\* an unknown key put in front of the vectors instead of pushed
UMInsertFront(m, k, v) ==
    IF UMContains(m, k)
    THEN [m EXCEPT !.values[UMIndex(m, k)] = v]
    ELSE [keys |-> <<k>> \o m.keys, values |-> <<v>> \o m.values]

\* the index of a known key not looked up: every insert pushes an entry
UMInsertPush(m, k, v) ==
    [keys |-> Append(m.keys, k), values |-> Append(m.values, v)]

UMInsert(m, k, v) ==
    IF UMContains(m, k)
    THEN [m EXCEPT !.values[UMIndex(m, k)] = v]
    ELSE [keys |-> Append(m.keys, k), values |-> Append(m.values, v)]

\* Vector::swap_remove: the last element takes the place of element i
SwapRemove(s, i) ==
    LET n == Len(s)
    IN  IF i = n THEN SubSeq(s, 1, n - 1)
        ELSE SubSeq(s, 1, i - 1) \o <<s[n]>> \o SubSeq(s, i + 1, n - 1)

\* the swap left out: the last entry is dropped whatever the key's index
UMRemovePop(m, k) ==
    IF UMContains(m, k)
    THEN [keys |-> SubSeq(m.keys, 1, Len(m.keys) - 1),
          values |-> SubSeq(m.values, 1, Len(m.values) - 1)]
    ELSE m

UMRemove(m, k) ==
    IF UMContains(m, k)
    THEN [keys |-> SwapRemove(m.keys, UMIndex(m, k)),
          values |-> SwapRemove(m.values, UMIndex(m, k))]
    ELSE m

\* m.values_as_vector().to_vec()
UMValues(m) == m.values

UMKeySet(m) == {m.keys[i] : i \in 1 .. Len(m.keys)}

----------------------------------------------------------------------------
(* The outcome of a call.                                                  *)

Unit == "unit"
NoResult == "none"

\* the guard left out: every caller passes
NotOwnerNever(caller) == FALSE

\* the guard of every mutating method
NotOwner(caller) == caller # owner

LogNotOwner(name, caller) == <<name, "account_id", caller, "is not owner">>
LogCount(name, caller, what, n) == <<name, "account_id", caller, what, n>>

\* #[derive(PanicOnDefault)]: a method called before new() panics
\* ("The contract is not initialized") and nothing is written
Panics(method, caller) ==
    /\ op' = method
    /\ account_id' = caller
    /\ ret' = "panic"
    /\ logs' = <<>>
    /\ result' = NoResult
    /\ UNCHANGED contract

Returns(method, caller, lines, value) ==
    /\ op' = method
    /\ account_id' = caller
    /\ ret' = "ok"
    /\ logs' = lines
    /\ result' = value

----------------------------------------------------------------------------
Init ==
    /\ state_exists = FALSE
    /\ storage_providers = UnorderedMapNew
    /\ price_per_region = UnorderedMapNew
    /\ active_per_region = ActivePerRegion(0, 0, 0, 0)
    /\ latest_timestamp = 0
    /\ owner = ""
    /\ op = "deploy"
    /\ account_id = ""
    /\ ret = "ok"
    /\ logs = <<>>
    /\ result = NoResult

\* new() without its assert: a second call constructs the state again
newAgain(caller) ==
    /\ state_exists' = TRUE
    /\ storage_providers' = UnorderedMapNew
    /\ price_per_region' = UnorderedMapNew
    /\ active_per_region' = ActivePerRegion(0, 0, 0, 0)
    /\ latest_timestamp' = 0
    /\ owner' = caller
    /\ Returns("new", caller, <<>>, Unit)

\* the contract's own account made the owner, not the caller of new()
newOwnedBySelf(caller) ==
    IF state_exists
    THEN Panics("new", caller)
    ELSE /\ state_exists' = TRUE
         /\ storage_providers' = UnorderedMapNew
         /\ price_per_region' = UnorderedMapNew
         /\ active_per_region' = ActivePerRegion(0, 0, 0, 0)
         /\ latest_timestamp' = 0
         /\ owner' = "filmarket_near"
         /\ Returns("new", caller, <<>>, Unit)

\* #[init] pub fn new() -> Self
new(caller) ==
    IF state_exists
    THEN Panics("new", caller)
    ELSE /\ state_exists' = TRUE
         /\ storage_providers' = UnorderedMapNew
         /\ price_per_region' = UnorderedMapNew
         /\ active_per_region' = ActivePerRegion(0, 0, 0, 0)
         /\ latest_timestamp' = 0
         /\ owner' = caller
         /\ Returns("new", caller, <<>>, Unit)

\* the price of a record that is already stored left as it is
UpsertStorageProviderKeepPrice(m, sp) ==
    LET found == UMGetOr(m, sp.id, empty_sp)
        named == IF found.id = ""
                 THEN [found EXCEPT !.id = sp.id, !.region = sp.region,
                                    !.price = sp.price]
                 ELSE found
        storage_provider == [named EXCEPT !.power = sp.power]
    IN  UMInsert(m, storage_provider.id, storage_provider)

\* the power of the record added to, not assigned
UpsertStorageProviderAddsPower(m, sp) ==
    LET found == UMGetOr(m, sp.id, empty_sp)
        named == IF found.id = ""
                 THEN [found EXCEPT !.id = sp.id, !.region = sp.region]
                 ELSE found
        storage_provider == [named EXCEPT !.power = named.power + sp.power,
                                          !.price = sp.price]
    IN  UMInsert(m, storage_provider.id, storage_provider)

\* the body of the for loop of update_storage_providers
UpsertStorageProvider(m, sp) ==
    LET found == UMGetOr(m, sp.id, empty_sp)
        named == IF found.id = ""
                 THEN [found EXCEPT !.id = sp.id, !.region = sp.region]
                 ELSE found
        storage_provider == [named EXCEPT !.power = sp.power, !.price = sp.price]
    IN  UMInsert(m, storage_provider.id, storage_provider)

\* for sp in storage_providers.iter() { ... }
RECURSIVE UpsertStorageProviders(_, _)
UpsertStorageProviders(m, sps) ==
    IF sps = <<>> THEN m
    ELSE UpsertStorageProviders(UpsertStorageProvider(m, Head(sps)), Tail(sps))

update_storage_providers(caller, sps) ==
    IF ~state_exists
    THEN Panics("update_storage_providers", caller)
    ELSE IF NotOwner(caller)
    THEN /\ Returns("update_storage_providers", caller,
                    <<LogNotOwner("update_storage_providers()", caller)>>, Unit)
         /\ UNCHANGED contract
    ELSE /\ storage_providers' = UpsertStorageProviders(storage_providers, sps)
         /\ Returns("update_storage_providers", caller,
                    <<LogCount("update_storage_providers()", caller,
                               "storage providers", Len(sps))>>, Unit)
         /\ UNCHANGED <<state_exists, price_per_region, active_per_region,
                        latest_timestamp, owner>>

\* the loop left at the first key that is not stored
RECURSIVE RemoveAllUntilAbsent(_, _)
RemoveAllUntilAbsent(m, ks) ==
    IF ks = <<>> \/ ~UMContains(m, Head(ks)) THEN m
    ELSE RemoveAllUntilAbsent(UMRemove(m, Head(ks)), Tail(ks))

\* for iter in keys.iter() { map.remove(iter); }
RECURSIVE RemoveAll(_, _)
RemoveAll(m, ks) ==
    IF ks = <<>> THEN m
    ELSE RemoveAll(UMRemove(m, Head(ks)), Tail(ks))

delete_storage_providers(caller, ids) ==
    IF ~state_exists
    THEN Panics("delete_storage_providers", caller)
    ELSE IF NotOwner(caller)
    THEN /\ Returns("delete_storage_providers", caller,
                    <<LogNotOwner("delete_storage_providers()", caller)>>, Unit)
         /\ UNCHANGED contract
    ELSE /\ storage_providers' = RemoveAll(storage_providers, ids)
         /\ Returns("delete_storage_providers", caller,
                    <<LogCount("delete_storage_providers()", caller,
                               "storage providers", Len(ids))>>, Unit)
         /\ UNCHANGED <<state_exists, price_per_region, active_per_region,
                        latest_timestamp, owner>>

\* the read gated like a mutation: a caller that is not the owner panics
get_storage_providers_owner_only(caller) ==
    IF ~state_exists \/ NotOwner(caller)
    THEN Panics("get_storage_providers", caller)
    ELSE /\ Returns("get_storage_providers", caller, <<>>, UMValues(storage_providers))
         /\ UNCHANGED contract

get_storage_providers(caller) ==
    IF ~state_exists
    THEN Panics("get_storage_providers", caller)
    ELSE /\ Returns("get_storage_providers", caller, <<>>, UMValues(storage_providers))
         /\ UNCHANGED contract

\* the aggregate assigned region by region, the last region forgotten
set_active_per_region_but_other(caller, active) ==
    IF ~state_exists
    THEN Panics("set_active_per_region", caller)
    ELSE IF NotOwner(caller)
    THEN /\ Returns("set_active_per_region", caller,
                    <<LogNotOwner("set_active_per_region()", caller)>>, Unit)
         /\ UNCHANGED contract
    ELSE /\ active_per_region' = [active EXCEPT !.other = active_per_region.other]
         /\ Returns("set_active_per_region", caller, <<>>, Unit)
         /\ UNCHANGED <<state_exists, storage_providers, price_per_region,
                        latest_timestamp, owner>>

\* pub fn set_active_per_region(&mut self, active_per_region: ActivePerRegion)
set_active_per_region(caller, active) ==
    IF ~state_exists
    THEN Panics("set_active_per_region", caller)
    ELSE IF NotOwner(caller)
    THEN /\ Returns("set_active_per_region", caller,
                    <<LogNotOwner("set_active_per_region()", caller)>>, Unit)
         /\ UNCHANGED contract
    ELSE /\ active_per_region' = active
         /\ Returns("set_active_per_region", caller, <<>>, Unit)
         /\ UNCHANGED <<state_exists, storage_providers, price_per_region,
                        latest_timestamp, owner>>

get_active_per_region(caller) ==
    IF ~state_exists
    THEN Panics("get_active_per_region", caller)
    ELSE /\ Returns("get_active_per_region", caller, <<>>,
                    ActivePerRegion(active_per_region.europe, active_per_region.asia,
                                    active_per_region.north_america,
                                    active_per_region.other))
         /\ UNCHANGED contract

\* a field-by-field merge that forgets fil_price on a stored record
UpsertPricePerRegionKeepFilPrice(m, price) ==
    LET found == UMGetOr(m, price.timestamp, empty_ppr)
        stamped == IF found.timestamp = 0
                   THEN [found EXCEPT !.timestamp = price.timestamp,
                                      !.fil_price = price.fil_price]
                   ELSE found
        ppr == [stamped EXCEPT !.europe = price.europe,
                               !.asia = price.asia,
                               !.north_america = price.north_america,
                               !.other = price.other,
                               !.global = price.global,
                               !.power = price.power]
    IN  UMInsert(m, ppr.timestamp, ppr)

\* lines 158-182 of set_price_per_region: the record written for the argument
UpsertPricePerRegion(m, price) ==
    LET found == UMGetOr(m, price.timestamp, empty_ppr)
        stamped == IF found.timestamp = 0
                   THEN [found EXCEPT !.timestamp = price.timestamp]
                   ELSE found
        ppr == [stamped EXCEPT !.europe = price.europe,
                               !.asia = price.asia,
                               !.north_america = price.north_america,
                               !.other = price.other,
                               !.global = price.global,
                               !.fil_price = price.fil_price,
                               !.power = price.power]
    IN  UMInsert(m, ppr.timestamp, ppr)

\* the pointer kept monotonic: a smaller timestamp does not move it
NewLatestTimestampMonotonic(latest, price) ==
    IF price.timestamp > latest THEN price.timestamp ELSE latest

\* line 183: self.latest_timestamp = price_per_region.timestamp
NewLatestTimestamp(latest, price) == price.timestamp

set_price_per_region(caller, price) ==
    IF ~state_exists
    THEN Panics("set_price_per_region", caller)
    ELSE IF NotOwner(caller)
    THEN /\ Returns("set_price_per_region", caller,
                    <<LogNotOwner("set_price_per_region()", caller)>>, Unit)
         /\ UNCHANGED contract
    ELSE /\ price_per_region' = UpsertPricePerRegion(price_per_region, price)
         /\ latest_timestamp' = NewLatestTimestamp(latest_timestamp, price)
         /\ Returns("set_price_per_region", caller, <<>>, Unit)
         /\ UNCHANGED <<state_exists, storage_providers, active_per_region, owner>>

get_price_per_region_list(caller) ==
    IF ~state_exists
    THEN Panics("get_price_per_region_list", caller)
    ELSE /\ Returns("get_price_per_region_list", caller, <<>>, UMValues(price_per_region))
         /\ UNCHANGED contract

\* the newest stored record returned when the pointer's record is gone
LatestPricePerRegionOrLast(m, latest) ==
    IF UMContains(m, latest) \/ Len(m.values) = 0
    THEN UMGetOr(m, latest, empty_ppr)
    ELSE m.values[Len(m.values)]

\* what get_latest_price_per_region returns in a state
LatestPricePerRegion(m, latest) == UMGetOr(m, latest, empty_ppr)

get_latest_price_per_region(caller) ==
    IF ~state_exists
    THEN Panics("get_latest_price_per_region", caller)
    ELSE /\ Returns("get_latest_price_per_region", caller, <<>>,
                    LatestPricePerRegion(price_per_region, latest_timestamp))
         /\ UNCHANGED contract

\* latest_timestamp put back to 0 when its snapshot is deleted
delete_price_per_region_resets(caller, timestamps) ==
    IF ~state_exists
    THEN Panics("delete_price_per_region", caller)
    ELSE IF NotOwner(caller)
    THEN /\ Returns("delete_price_per_region", caller,
                    <<LogNotOwner("set_price_per_region()", caller)>>, Unit)
         /\ UNCHANGED contract
    ELSE /\ price_per_region' = RemoveAll(price_per_region, timestamps)
         /\ latest_timestamp' =
               IF UMContains(RemoveAll(price_per_region, timestamps), latest_timestamp)
               THEN latest_timestamp ELSE 0
         /\ Returns("delete_price_per_region", caller,
                    <<LogCount("delete_price_per_region()", caller,
                               "entries", Len(timestamps))>>, Unit)
         /\ UNCHANGED <<state_exists, storage_providers, active_per_region, owner>>

\* the rejection of delete_price_per_region logs under the name set_price_per_region()
delete_price_per_region(caller, timestamps) ==
    IF ~state_exists
    THEN Panics("delete_price_per_region", caller)
    ELSE IF NotOwner(caller)
    THEN /\ Returns("delete_price_per_region", caller,
                    <<LogNotOwner("set_price_per_region()", caller)>>, Unit)
         /\ UNCHANGED contract
    ELSE /\ price_per_region' = RemoveAll(price_per_region, timestamps)
         /\ Returns("delete_price_per_region", caller,
                    <<LogCount("delete_price_per_region()", caller,
                               "entries", Len(timestamps))>>, Unit)
         /\ UNCHANGED <<state_exists, storage_providers, active_per_region,
                        latest_timestamp, owner>>

----------------------------------------------------------------------------
(* The arguments of the calls.                                             *)

\* a provider of region r lists power 10 * r at price r
StorageProvidersOf(ids, regions) ==
    {StorageProvider(id, region, 10 * region, region) : id \in ids, region \in regions}

\* a snapshot whose seven value fields are all different and all non-zero
PriceArg(level, timestamp) ==
    PricePerRegion(level + 1, level + 2, level + 3, level + 4, level + 5,
                   level + 6, level + 7, timestamp)

PricesOf(levels, timestamps) ==
    {PriceArg(level, timestamp) : level \in levels, timestamp \in timestamps}

ActiveArg(n) == ActivePerRegion(n, n + 10, n + 20, n + 30)

ActiveArgs == {ActiveArg(n) : n \in 1 .. MaxActive}

----------------------------------------------------------------------------
(* The provider registry: new() and the three provider methods, over three *)
(* ids (the empty string among them) and batches of up to MaxBatch.        *)

NextProviders ==
    \E caller \in Accounts :
        \/ new(caller)
        \/ \E sps \in SeqsUpTo(StorageProvidersOf(Ids, Regions), MaxBatch) :
               update_storage_providers(caller, sps)
        \/ \E ids \in SeqsUpTo(Ids, MaxBatch) : delete_storage_providers(caller, ids)
        \/ get_storage_providers(caller)

SpecProviders == Init /\ [][NextProviders]_vars

(* Upserts alone: new(), update_storage_providers and the read, no delete. *)

NextUpserts ==
    \E caller \in Accounts :
        \/ new(caller)
        \/ \E sps \in SeqsUpTo(StorageProvidersOf(Ids, Regions), MaxBatch) :
               update_storage_providers(caller, sps)
        \/ get_storage_providers(caller)

SpecUpserts == Init /\ [][NextUpserts]_vars

(* The price store: new() and the four price methods, over the timestamps  *)
(* 0 .. MaxTimestamp and batches of up to MaxBatch.                        *)

NextPrices ==
    \E caller \in Accounts :
        \/ new(caller)
        \/ \E price \in PricesOf(PriceLevels, Timestamps) :
               set_price_per_region(caller, price)
        \/ \E timestamps \in SeqsUpTo(Timestamps, MaxBatch) :
               delete_price_per_region(caller, timestamps)
        \/ get_price_per_region_list(caller)
        \/ get_latest_price_per_region(caller)

SpecPrices == Init /\ [][NextPrices]_vars

(* The order of both stores: the upserts, deletes and list reads of the    *)
(* two stores over three keys each, one record for a key; providers are    *)
(* deleted in batches of up to MaxBatch, snapshots one key in a call.      *)

OrderTimestamps == {1, 2, 3}

NextOrder ==
    \E caller \in Accounts :
        \/ new(caller)
        \/ \E sps \in SeqsUpTo(StorageProvidersOf(Ids, {1}), MaxBatch) :
               update_storage_providers(caller, sps)
        \/ \E ids \in SeqsUpTo(Ids, MaxBatch) : delete_storage_providers(caller, ids)
        \/ get_storage_providers(caller)
        \/ \E price \in PricesOf({10}, OrderTimestamps) :
               set_price_per_region(caller, price)
        \/ \E timestamps \in SeqsUpTo(OrderTimestamps, 1) :
               delete_price_per_region(caller, timestamps)
        \/ get_price_per_region_list(caller)

SpecOrder == Init /\ [][NextOrder]_vars

(* The whole contract: every method, with arguments over two ids and two   *)
(* timestamps, one record or key in a call.                                *)

SomeIds == {"", "id1"}
SomeTimestamps == {0, 1}

Next ==
    \E caller \in Accounts :
        \/ new(caller)
        \/ \E sps \in SeqsUpTo(StorageProvidersOf(SomeIds, Regions), 1) :
               update_storage_providers(caller, sps)
        \/ \E ids \in SeqsUpTo(SomeIds, 1) : delete_storage_providers(caller, ids)
        \/ get_storage_providers(caller)
        \/ \E active \in ActiveArgs : set_active_per_region(caller, active)
        \/ get_active_per_region(caller)
        \/ \E price \in PricesOf({10}, SomeTimestamps) :
               set_price_per_region(caller, price)
        \/ \E timestamps \in SeqsUpTo(SomeTimestamps, 1) :
               delete_price_per_region(caller, timestamps)
        \/ get_price_per_region_list(caller)
        \/ get_latest_price_per_region(caller)

Spec == Init /\ [][Next]_vars
----------------------------------------------------------------------------
(* The claims.                                                             *)

IdsOf(records) == [i \in 1 .. Len(records) |-> records[i].id]
TimestampsOf(records) == [i \in 1 .. Len(records) |-> records[i].timestamp]
Range(s) == {s[i] : i \in 1 .. Len(s)}

\* this step is a call of method by the owner of a constructed contract
OwnerCalls(method) ==
    state_exists /\ op' = method /\ account_id' = owner

Mutating == {"update_storage_providers", "delete_storage_providers",
             "set_active_per_region", "set_price_per_region",
             "delete_price_per_region"}

\* what the four reads return in the current state
Reads == <<UMValues(storage_providers), active_per_region,
           UMValues(price_per_region),
           LatestPricePerRegion(price_per_region, latest_timestamp)>>

ProviderBatches == SeqsUpTo(StorageProvidersOf(Ids, Regions), MaxBatch)
IdBatches == SeqsUpTo(Ids, MaxBatch)
PriceArgs == PricesOf(PriceLevels, Timestamps)

\* the region of the first record of sps with the given id
FirstRegion(sps, id) ==
    sps[CHOOSE i \in 1 .. Len(sps) :
            /\ sps[i].id = id
            /\ \A j \in 1 .. i - 1 : sps[j].id # id].region

\* C1: in a run of upserts with no delete, an owner-issued
\* update_storage_providers leaves every stored id, the empty string
\* included, with the region it had, and gives an id it introduces the
\* region of the first record of the call that names it.
C1_RegionOfFirstRecord ==
    [][\A sps \in ProviderBatches :
          (OwnerCalls("update_storage_providers")
           /\ update_storage_providers(owner, sps))
          => \A id \in UMKeySet(storage_providers') :
                UMGetOr(storage_providers', id, empty_sp).region
                  = IF UMContains(storage_providers, id)
                    THEN UMGetOr(storage_providers, id, empty_sp).region
                    ELSE FirstRegion(sps, id)]_vars

\* C2: a mutating method called by an account that is not the owner leaves
\* the whole contract state, and so the result of every read, as it was,
\* and returns without a panic.
C2_NonOwnerChangesNothing ==
    [][(state_exists /\ op' \in Mutating /\ account_id' # owner)
       => /\ UNCHANGED contract
          /\ Reads' = Reads
          /\ ret' = "ok"]_vars

C2_Witness ==
    /\ state_exists
    /\ op = "delete_price_per_region"
    /\ account_id # owner
    /\ ret = "ok"
    /\ Len(storage_providers.keys) > 0
    /\ Len(price_per_region.keys) > 0
    /\ active_per_region # ActivePerRegion(0, 0, 0, 0)

\* C3: after an owner-issued set_price_per_region(s),
\* get_latest_price_per_region returns a record equal to s in its timestamp
\* and in every other field, also when s.timestamp is below the timestamp
\* recorded before.
C3_LatestIsLastSet ==
    [][\A s \in PriceArgs :
          (OwnerCalls("set_price_per_region") /\ set_price_per_region(owner, s))
          => LatestPricePerRegion(price_per_region', latest_timestamp') = s]_vars

\* the owner has just set a snapshot older than one that is still stored
C3_Witness ==
    /\ state_exists
    /\ op = "set_price_per_region"
    /\ account_id = owner
    /\ ret = "ok"
    /\ latest_timestamp < MaxTimestamp
    /\ UMContains(price_per_region, MaxTimestamp)
    /\ LatestPricePerRegion(price_per_region, latest_timestamp).timestamp
         = latest_timestamp

\* C4: the timestamp 0 is never a key of price_per_region.
C4_ZeroNeverStored == ~UMContains(price_per_region, 0)

\* C5: after an owner-issued delete_storage_providers get_storage_providers
\* holds no record with a deleted id, the call returns without a panic, and
\* when every id of the call is absent the list is the same records in the
\* same order.
C5_DeleteRemoves ==
    [][\A ids \in IdBatches :
          (OwnerCalls("delete_storage_providers")
           /\ delete_storage_providers(owner, ids))
          => /\ ret' = "ok"
             /\ \A x \in Range(ids) :
                   x \notin Range(IdsOf(UMValues(storage_providers')))
             /\ (Range(ids) \cap Range(IdsOf(UMValues(storage_providers))) = {})
                   => UMValues(storage_providers') = UMValues(storage_providers)]_vars

\* the owner has just deleted two ids and a record of the third is listed
C5_Witness ==
    /\ state_exists
    /\ op = "delete_storage_providers"
    /\ account_id = owner
    /\ ret = "ok"
    /\ logs = <<LogCount("delete_storage_providers()", owner, "storage providers", 2)>>
    /\ Len(UMValues(storage_providers)) = 1
IsPrefix(a, b) == Len(a) <= Len(b) /\ SubSeq(b, 1, Len(a)) = a

\* the keys of was that are still in now come first in now, in the order of was
KeepsOrder(was, now) ==
    was = now \/ IsPrefix(SelectSeq(was, LAMBDA x : x \in Range(now)), now)

\* the keys of was that are not in now are the last entries of was
RemovedAtEnd(was, now) ==
    \A i \in 1 .. Len(was) :
        was[i] \notin Range(now) => \A j \in i .. Len(was) : was[j] \notin Range(now)

\* one key of was, not its last, is gone and the last entry has taken its place
LastTakesPlace(was, now) ==
    \A i \in 1 .. Len(was) - 1 :
        (Range(was) \ Range(now) = {was[i]})
        => now = [j \in 1 .. Len(was) - 1 |-> IF j = i THEN was[Len(was)] ELSE was[j]]

\* C6 as claimed: every call leaves the surviving records of both lists in
\* their order of first insertion, whichever keys a delete removed.
C6_InsertionOrderKept ==
    [][state_exists
       => /\ KeepsOrder(IdsOf(UMValues(storage_providers)),
                        IdsOf(UMValues(storage_providers')))
          /\ KeepsOrder(TimestampsOf(UMValues(price_per_region)),
                        TimestampsOf(UMValues(price_per_region')))]_vars

\* C6 amended: the lists are in the iteration order of the store: an upsert
\* keeps the place of every stored record and appends the unseen keys; a
\* delete of the last entries keeps the order of the rest; a delete of one
\* entry that is not the last moves the last record into its place.
C6_IterationOrder ==
    [][state_exists
       => /\ RemovedAtEnd(IdsOf(UMValues(storage_providers)),
                          IdsOf(UMValues(storage_providers')))
               => KeepsOrder(IdsOf(UMValues(storage_providers)),
                             IdsOf(UMValues(storage_providers')))
          /\ LastTakesPlace(IdsOf(UMValues(storage_providers)),
                            IdsOf(UMValues(storage_providers')))
          /\ RemovedAtEnd(TimestampsOf(UMValues(price_per_region)),
                          TimestampsOf(UMValues(price_per_region')))
               => KeepsOrder(TimestampsOf(UMValues(price_per_region)),
                             TimestampsOf(UMValues(price_per_region')))
          /\ LastTakesPlace(TimestampsOf(UMValues(price_per_region)),
                            TimestampsOf(UMValues(price_per_region')))]_vars

\* the owner has just deleted one id and two providers and three snapshots
\* are listed
C6_Witness ==
    /\ state_exists
    /\ op = "delete_storage_providers"
    /\ account_id = owner
    /\ ret = "ok"
    /\ logs = <<LogCount("delete_storage_providers()", owner, "storage providers", 1)>>
    /\ Len(UMValues(storage_providers)) = 2
    /\ Len(UMValues(price_per_region)) = 3

\* the record of the last entry of sps with the given id
LastWith(sps, id) ==
    sps[CHOOSE i \in 1 .. Len(sps) :
            /\ sps[i].id = id
            /\ \A j \in i + 1 .. Len(sps) : sps[j].id # id]

\* C7: whatever the owner submits to update_storage_providers, an id of the
\* call that is already stored ends with exactly one listed record, whose
\* power and price are those of the last record of the call with that id.
C7_LatestPowerAndPrice ==
    state_exists
    => \A sps \in ProviderBatches :
          LET after == UMValues(UpsertStorageProviders(storage_providers, sps))
          IN  \A i \in 1 .. Len(sps) :
                 UMContains(storage_providers, sps[i].id)
                 => LET at == {j \in 1 .. Len(after) : after[j].id = sps[i].id}
                    IN  /\ Cardinality(at) = 1
                        /\ \A j \in at :
                              /\ after[j].power = LastWith(sps, sps[i].id).power
                              /\ after[j].price = LastWith(sps, sps[i].id).price

\* the owner has just updated the one stored provider with one record: its
\* region is still that of its first record, its power and price are not
C7_Witness ==
    /\ state_exists
    /\ op = "update_storage_providers"
    /\ account_id = owner
    /\ ret = "ok"
    /\ logs = <<LogCount("update_storage_providers()", owner, "storage providers", 1)>>
    /\ Len(UMValues(storage_providers)) = 1
    /\ UMValues(storage_providers)[1].id # ""
    /\ UMValues(storage_providers)[1].price # UMValues(storage_providers)[1].region

\* C8: on a constructed contract get_latest_price_per_region returns without
\* a panic, and returns the all-zero record when nothing is stored under
\* latest_timestamp; delete_price_per_region leaves latest_timestamp as it
\* was, also when it deletes that key.
C8_LatestNeverFails ==
    [][state_exists
       => /\ (op' = "delete_price_per_region")
               => latest_timestamp' = latest_timestamp
          /\ (op' = "get_latest_price_per_region")
               => /\ ret' = "ok"
                  /\ ~UMContains(price_per_region, latest_timestamp)
                        => result' = empty_ppr]_vars

\* the latest snapshot was deleted, others are stored, and the read has just
\* returned the all-zero record
C8_Witness ==
    /\ state_exists
    /\ op = "get_latest_price_per_region"
    /\ ret = "ok"
    /\ latest_timestamp # 0
    /\ ~UMContains(price_per_region, latest_timestamp)
    /\ Len(UMValues(price_per_region)) > 0
    /\ result = empty_ppr

\* C9: an owner-issued set_price_per_region(s) leaves exactly one record
\* under the key s.timestamp, equal to s in all eight fields, and leaves the
\* records of the other keys as they were.
C9_WholeRecordReplaced ==
    [][\A s \in PriceArgs :
          (OwnerCalls("set_price_per_region") /\ set_price_per_region(owner, s))
          => /\ Cardinality({j \in 1 .. Len(price_per_region'.keys) :
                                price_per_region'.keys[j] = s.timestamp}) = 1
             /\ Cardinality({j \in 1 .. Len(UMValues(price_per_region')) :
                                UMValues(price_per_region')[j].timestamp
                                  = s.timestamp}) = 1
             /\ UMGetOr(price_per_region', s.timestamp, empty_ppr) = s
             /\ UMKeySet(price_per_region')
                  = UMKeySet(price_per_region) \cup {s.timestamp}
             /\ \A t \in UMKeySet(price_per_region) \ {s.timestamp} :
                   UMGetOr(price_per_region', t, empty_ppr)
                     = UMGetOr(price_per_region, t, empty_ppr)]_vars

\* the owner has just set the snapshot of a timestamp that was stored before:
\* its record is not the last of the list
C9_Witness ==
    /\ state_exists
    /\ op = "set_price_per_region"
    /\ account_id = owner
    /\ ret = "ok"
    /\ Len(price_per_region.keys) = 2
    /\ price_per_region.keys[1] = latest_timestamp
    /\ price_per_region.values[1] = PriceArg(20, latest_timestamp)

\* C10: new() makes its caller the owner, and no call on a constructed
\* contract changes the owner.
C10_OwnerFixed ==
    [][/\ (op' = "new" /\ ret' = "ok") => owner' = account_id'
       /\ state_exists => owner' = owner]_vars

\* the other account has just called new() on the constructed contract
C10_Witness ==
    /\ state_exists
    /\ op = "new"
    /\ ret = "panic"
    /\ account_id # owner
    /\ owner \in Accounts
    /\ Len(storage_providers.keys) > 0
\* C11: new() on a contract whose state exists panics and leaves the owner,
\* both stores, the counters and latest_timestamp as they were; new() on a
\* contract without state leaves both stores empty, the four counters and
\* latest_timestamp 0, and its caller the owner.
C11_NewOnceOnly ==
    [][(op' = "new")
       => IF state_exists
          THEN ret' = "panic" /\ UNCHANGED contract
          ELSE /\ ret' = "ok"
               /\ state_exists'
               /\ UMValues(storage_providers') = <<>>
               /\ UMKeySet(storage_providers') = {}
               /\ UMValues(price_per_region') = <<>>
               /\ UMKeySet(price_per_region') = {}
               /\ active_per_region' = ActivePerRegion(0, 0, 0, 0)
               /\ latest_timestamp' = 0
               /\ owner' = account_id']_vars

\* new() has just panicked on a contract that holds providers, snapshots,
\* counters and a latest_timestamp
C11_Witness ==
    /\ state_exists
    /\ op = "new"
    /\ ret = "panic"
    /\ account_id = owner
    /\ Len(storage_providers.keys) > 0
    /\ Len(price_per_region.keys) > 0
    /\ active_per_region # ActivePerRegion(0, 0, 0, 0)
    /\ latest_timestamp # 0

\* C12: after an owner-issued set_active_per_region(c) the aggregate is c in
\* all four fields, whatever it was, and get_active_per_region returns the
\* aggregate as it is stored.
C12_ActiveReplaced ==
    [][/\ \A c \in ActiveArgs :
             (OwnerCalls("set_active_per_region") /\ set_active_per_region(owner, c))
             => /\ active_per_region'.europe = c.europe
                /\ active_per_region'.asia = c.asia
                /\ active_per_region'.north_america = c.north_america
                /\ active_per_region'.other = c.other
       /\ (state_exists /\ op' = "get_active_per_region")
             => result' = active_per_region]_vars

\* the read has just returned the aggregate the owner set
C12_Witness ==
    /\ state_exists
    /\ op = "get_active_per_region"
    /\ ret = "ok"
    /\ result = ActiveArg(MaxActive)
    /\ active_per_region = ActiveArg(MaxActive)

ReadOps == {"get_storage_providers", "get_active_per_region",
            "get_price_per_region_list", "get_latest_price_per_region"}

\* what the read named method returns in the current state
ReadOf(method) ==
    CASE method = "get_storage_providers" -> Reads[1]
      [] method = "get_active_per_region" -> Reads[2]
      [] method = "get_price_per_region_list" -> Reads[3]
      [] method = "get_latest_price_per_region" -> Reads[4]

\* C13: on a constructed contract each of the four reads returns without a
\* panic for every caller, the owner or not, returns what is stored, and
\* leaves the whole contract state as it was.
C13_ReadsOpen ==
    [][(state_exists /\ op' \in ReadOps)
       => /\ ret' = "ok"
          /\ result' = ReadOf(op')
          /\ UNCHANGED contract]_vars

\* an account that is not the owner has just listed the stored providers
C13_Witness ==
    /\ state_exists
    /\ op = "get_storage_providers"
    /\ account_id # owner
    /\ ret = "ok"
    /\ Len(result) > 0
    /\ Len(price_per_region.keys) > 0

\* the name under which a method writes its log lines
NameInLog(method) ==
    CASE method = "update_storage_providers" -> "update_storage_providers()"
      [] method = "delete_storage_providers" -> "delete_storage_providers()"
      [] method = "set_active_per_region" -> "set_active_per_region()"
      [] method = "set_price_per_region" -> "set_price_per_region()"
      [] method = "delete_price_per_region" -> "delete_price_per_region()"

\* C14: a mutating method called by an account that is not the owner logs
\* one line that names the method that was called and the rejected account.
C14_RejectionNamesMethod ==
    (state_exists /\ op \in Mutating /\ account_id # owner)
    => logs = <<LogNotOwner(NameInLog(op), account_id)>>
\* the listed record of id in a store
ProviderOf(m, id) == UMGetOr(m, id, empty_sp)

\* C15: one owner call with the records a ++ b leaves the store that a call
\* with a and then a call with b leave, and when a call names an id that is
\* not stored in two records, the id, the empty string included, ends with
\* the region of the first of them and the power and price of the last.
C15_OneRecordAtATime ==
    [][\A sps \in ProviderBatches :
          (OwnerCalls("update_storage_providers")
           /\ update_storage_providers(owner, sps))
          => /\ \A k \in 0 .. Len(sps) :
                   storage_providers'
                     = UpsertStorageProviders(
                           UpsertStorageProviders(storage_providers, SubSeq(sps, 1, k)),
                           SubSeq(sps, k + 1, Len(sps)))
             /\ \A i \in 1 .. Len(sps) : \A j \in i + 1 .. Len(sps) :
                   (sps[i].id = sps[j].id /\ ~UMContains(storage_providers, sps[i].id))
                   => /\ ProviderOf(storage_providers', sps[i].id).region
                           = FirstRegion(sps, sps[i].id)
                      /\ ProviderOf(storage_providers', sps[i].id).power
                           = LastWith(sps, sps[i].id).power
                      /\ ProviderOf(storage_providers', sps[i].id).price
                           = LastWith(sps, sps[i].id).price]_vars

TimestampBatches == SeqsUpTo(OrderTimestamps, MaxBatch)

\* removing the keys ks from m leaves none of them and leaves the record of
\* every other key as it was
DeletesExactly(m, ks, none) ==
    LET after == RemoveAll(m, ks)
    IN  /\ UMKeySet(after) = UMKeySet(m) \ Range(ks)
        /\ Len(UMValues(after)) = Cardinality(UMKeySet(after))
        /\ \A k \in UMKeySet(after) : UMGetOr(after, k, none) = UMGetOr(m, k, none)

\* C16: whatever keys the owner submits to delete_storage_providers or
\* delete_price_per_region, absent or repeated ones at any place among them,
\* every key of the call is absent afterwards and every other stored key
\* keeps its record.
C16_DeleteGoesOn ==
    state_exists
    => /\ \A ids \in IdBatches : DeletesExactly(storage_providers, ids, empty_sp)
       /\ \A timestamps \in TimestampBatches :
             DeletesExactly(price_per_region, timestamps, empty_ppr)

\* the owner has just deleted with a batch of two ids, one provider is left
\* and snapshots are stored
C16_Witness ==
    /\ state_exists
    /\ op = "delete_storage_providers"
    /\ account_id = owner
    /\ ret = "ok"
    /\ logs = <<LogCount("delete_storage_providers()", owner, "storage providers", 2)>>
    /\ Len(UMValues(storage_providers)) = 1
    /\ Len(UMValues(price_per_region)) = 2

\* C17: latest_timestamp changes only in a set_price_per_region of the
\* owner; the provider methods leave price_per_region, latest_timestamp and
\* active_per_region as they were, the price methods leave storage_providers
\* and active_per_region, set_active_per_region leaves both stores and
\* latest_timestamp, and delete_price_per_region leaves latest_timestamp.
C17_OwnComponentOnly ==
    [][state_exists
       => /\ (latest_timestamp' # latest_timestamp)
               => (op' = "set_price_per_region" /\ account_id' = owner)
          /\ (op' \in {"update_storage_providers", "delete_storage_providers"})
               => UNCHANGED <<price_per_region, latest_timestamp, active_per_region>>
          /\ (op' \in {"set_price_per_region", "delete_price_per_region"})
               => UNCHANGED <<storage_providers, active_per_region>>
          /\ (op' = "set_active_per_region")
               => UNCHANGED <<storage_providers, price_per_region, latest_timestamp>>
          /\ (op' = "delete_price_per_region")
               => UNCHANGED latest_timestamp]_vars

\* the owner has just deleted the snapshot latest_timestamp points at, with
\* providers and counters stored
C17_Witness ==
    /\ state_exists
    /\ op = "delete_price_per_region"
    /\ account_id = owner
    /\ ret = "ok"
    /\ latest_timestamp # 0
    /\ ~UMContains(price_per_region, latest_timestamp)
    /\ Len(storage_providers.keys) > 0
    /\ active_per_region # ActivePerRegion(0, 0, 0, 0)

\* C18: every record of storage_providers is stored under its own id and
\* every record of price_per_region under its own timestamp, so neither list
\* holds two records of one id or of one timestamp.
C18_KeyIsOwnField ==
    /\ Len(storage_providers.keys) = Len(storage_providers.values)
    /\ Len(price_per_region.keys) = Len(price_per_region.values)
    /\ \A i \in 1 .. Len(storage_providers.keys) :
          storage_providers.keys[i] = storage_providers.values[i].id
    /\ \A i \in 1 .. Len(price_per_region.keys) :
          price_per_region.keys[i] = price_per_region.values[i].timestamp
    /\ Cardinality(Range(IdsOf(UMValues(storage_providers))))
         = Len(UMValues(storage_providers))
    /\ Cardinality(Range(TimestampsOf(UMValues(price_per_region))))
         = Len(UMValues(price_per_region))

\* two providers, the one of the empty id among them, and two snapshots, the
\* one of timestamp 0 among them, are stored
C18_Witness ==
    /\ state_exists
    /\ UMKeySet(storage_providers) = SomeIds
    /\ UMKeySet(price_per_region) = SomeTimestamps
    /\ op = "set_price_per_region"
    /\ account_id = owner

\* C19: when the owner deletes a stored id and then submits a record of that
\* id with another region, the id is stored with the region of that record.
C19_RegionFreeAfterDelete ==
    state_exists
    => \A x \in UMKeySet(storage_providers) :
          \A sp \in StorageProvidersOf({x}, Regions) :
             (sp.region # ProviderOf(storage_providers, x).region)
             => ProviderOf(UpsertStorageProviders(
                               RemoveAll(storage_providers, <<x>>), <<sp>>), x)
                  = sp

\* the owner has just submitted one record of id1 with region 2 to a store
\* that holds no other provider
C19_Witness ==
    /\ state_exists
    /\ op = "update_storage_providers"
    /\ account_id = owner
    /\ ret = "ok"
    /\ logs = <<LogCount("update_storage_providers()", owner, "storage providers", 1)>>
    /\ UMValues(storage_providers) = <<StorageProvider("id1", 2, 20, 2)>>

SomeProviderBatches == SeqsUpTo(StorageProvidersOf(SomeIds, Regions), MaxBatch)
SomePriceArgs == PricesOf(PriceLevels, SomeTimestamps)

\* C20: the same update_storage_providers of the owner issued again leaves
\* the store as the first call left it, and the same set_price_per_region
\* issued again leaves the store and latest_timestamp as the first left them.
C20_UpsertsIdempotent ==
    state_exists
    => /\ \A sps \in SomeProviderBatches :
             LET once == UpsertStorageProviders(storage_providers, sps)
             IN  UpsertStorageProviders(once, sps) = once
       /\ \A s \in SomePriceArgs :
             LET once == UpsertPricePerRegion(price_per_region, s)
                 latest == NewLatestTimestamp(latest_timestamp, s)
             IN  /\ UpsertPricePerRegion(once, s) = once
                 /\ NewLatestTimestamp(latest, s) = latest

\* the owner has just set a snapshot, with providers and another snapshot
\* stored
C20_Witness ==
    /\ state_exists
    /\ op = "set_price_per_region"
    /\ account_id = owner
    /\ ret = "ok"
    /\ Len(storage_providers.keys) = 2
    /\ Len(price_per_region.keys) = 2
    /\ latest_timestamp = price_per_region.keys[1]
====
